---- MODULE Spec2Model ----
(***************************************************************************)
(* StreamLine backend relay (src/main.py): two chat listeners that persist *)
(* inbound chat events, the /summarize, /broadcast and /health handlers,   *)
(* and the background fan-out of a broadcast to the two platform senders.  *)
(*                                                                         *)
(* Text is modelled by TLA+ strings (concatenation with \o), optional      *)
(* values (Python None) by sequences: << >> is None, <<v>> is the value v. *)
(***************************************************************************)
EXTENDS Integers, Sequences, FiniteSets, TLC

(* ---------------------------------------------------------------- bounds *)

\* Rows the message table may hold in the relay specification.
MaxRows == 2

\* Items one fetched YouTube batch may hold.
MaxBatch == 2

\* Rows of the largest table the summarize specification starts from.
MaxStored == 52

\* Ways the contents of a starting table are varied.
NumPatterns == 3

(* ------------------------------------------------------- program constants *)

\* .limit(50)
Limit == 50

Quiet == "Chat has been quiet. Nothing to report!"

BrainFreeze == "AI Brain Freeze: "

PromptHead ==
  "You are a helpful assistant for a streamer. "
  \o "Here is the chat log from the last few minutes. "
  \o "Summarize what happened in 2-3 short, funny sentences. "
  \o "Highlight if anyone subscribed or if there was drama.\n\n"
  \o "CHAT LOG:\n"

TwitchNotInitialized == "Twitch chat not initialized"

NoActiveStream == "No active stream"

(* ------------------------------------------------------------ environment *)

\* Values of the YOUTUBE_VIDEO_ID environment variable: unset, or a video.
VideoIds == {<< >>, <<"vid">>}

\* Chat items the YouTube live chat delivers.
YtItems == {[name |-> "a", message |-> "hi", isChatSponsor |-> FALSE]}

\* Messages the Twitch chat delivers.
TwMsgs == {[name |-> "b", text |-> "subbed!", subscriber |-> TRUE]}

\* Bodies of POST /broadcast.
Reqs == {[message |-> "gg everyone", username |-> "streamer1"]}

\* str(e) of the exceptions the external clients raise.
Errors == {"timeout"}

\* Texts the generative model answers with.
Summaries == {"chat said hi"}

VARIABLES
  videoId,                \* YOUTUBE_VIDEO_ID
  store,                  \* rows of the chat_messages table
  ytPc,                   \* position of the youtube_listener task
  youtube_chat_listener,  \* global: << >> or <<[alive |-> BOOLEAN]>>
  twPc,                   \* position of the twitch_listener task
  twitch_chat,            \* global: << >> or <<[started |-> BOOLEAN]>>
  pending,                \* exchange the /broadcast handler has returned, not yet sent
  fanout,                 \* the latest broadcast_to_platforms task
  exchange                \* the HTTP exchange completed last

vars ==
  <<videoId, store, ytPc, youtube_chat_listener, twPc, twitch_chat,
    pending, fanout, exchange>>

(* ------------------------------------------------------------ the table *)

Max(S) == CHOOSE x \in S : \A y \in S : y <= x

\* created_at is assigned by the store: later than every stored row's.
NextTimestamp(s) == IF s = {} THEN 1 ELSE Max({r.created_at : r \in s}) + 1

\* Variant: an upsert keyed by username, replacing the sender's earlier rows.
InsertUpsert(s, data) ==
  {r \in s : r.username # data.username}
    \cup {[username |-> data.username, message_text |-> data.message_text,
           platform |-> data.platform, is_subscriber |-> data.is_subscriber,
           created_at |-> NextTimestamp(s)]}

\* supabase.table("chat_messages").insert(data).execute(), when it succeeds.
Insert(s, data) ==
  s \cup {[username |-> data.username, message_text |-> data.message_text,
           platform |-> data.platform, is_subscriber |-> data.is_subscriber,
           created_at |-> NextTimestamp(s)]}

RECURSIVE InsertAll(_, _)
\* The rows of a sequence of data, inserted one after the other.
InsertAll(s, datas) ==
  IF datas = << >> THEN s ELSE InsertAll(Insert(s, Head(datas)), Tail(datas))

HasRoom(n) == Cardinality(store) + n <= MaxRows

(* ------------------------------------------------------ YouTube listener *)

\* The row youtube_listener builds from one chat item.
YtData(chat) ==
  [username |-> chat.name, message_text |-> chat.message,
   platform |-> "youtube", is_subscriber |-> chat.isChatSponsor]

\* Batches youtube_chat_listener.get().sync_items() may deliver.
Batches == UNION {[1..n -> YtItems] : n \in 0..MaxBatch}

\* Variant: the video identifier is not tested.
EntryUnguarded(video) == "create"

\* if not YOUTUBE_VIDEO_ID: return; otherwise enter the try block.
Entry(video) == IF video = << >> THEN "skipped" ELSE "create"

youtube_listener_start ==
  /\ ytPc = "start"
  /\ ytPc' = Entry(videoId)
  /\ UNCHANGED <<videoId, store, youtube_chat_listener, twPc, twitch_chat,
                 pending, fanout, exchange>>

\* pytchat.create(video_id=...): raises, or binds the global to a chat object.
youtube_listener_create ==
  /\ ytPc = "create"
  /\ \/ /\ ytPc' = "faulted"
        /\ UNCHANGED youtube_chat_listener
     \/ /\ \E alive \in BOOLEAN : youtube_chat_listener' = <<[alive |-> alive]>>
        /\ ytPc' = "polling"
  /\ UNCHANGED <<videoId, store, twPc, twitch_chat, pending, fanout, exchange>>

\* One turn of the while loop, from the is_alive() test to the sleep: the
\* loop ends when the chat is no longer alive; get() may raise; the items of
\* the batch are inserted in order and an insert may raise, which leaves the
\* rows inserted before it in the table.
youtube_listener_poll ==
  /\ ytPc = "polling"
  /\ \/ /\ ~youtube_chat_listener[1].alive
        /\ ytPc' = "stopped"
        /\ UNCHANGED store
     \/ /\ youtube_chat_listener[1].alive
        /\ ytPc' = "faulted"
        /\ UNCHANGED store
     \/ /\ youtube_chat_listener[1].alive
        /\ \E batch \in Batches :
             \E k \in 0..Len(batch) :
               /\ HasRoom(k)
               /\ store' = InsertAll(store, [i \in 1..k |-> YtData(batch[i])])
               /\ ytPc' = IF k = Len(batch) THEN "polling" ELSE "faulted"
  /\ UNCHANGED <<videoId, youtube_chat_listener, twPc, twitch_chat,
                 pending, fanout, exchange>>

\* The live chat ends (the stream is over): is_alive() turns false.
chat_ends ==
  /\ youtube_chat_listener # << >>
  /\ youtube_chat_listener[1].alive
  /\ youtube_chat_listener' = <<[alive |-> FALSE]>>
  /\ UNCHANGED <<videoId, store, ytPc, twPc, twitch_chat, pending, fanout,
                 exchange>>

(* ------------------------------------------------------- Twitch listener *)

\* The row on_twitch_message builds from one message.
TwData(msg) ==
  [username |-> msg.name, message_text |-> msg.text,
   platform |-> "twitch", is_subscriber |-> msg.subscriber]

\* Variant: the setup's exception is not caught in the task and ends the
\* process, and the YouTube listener with it.
twitch_listener_uncaught ==
  /\ twPc = "start"
  /\ \/ /\ twPc' = "faulted"
        /\ ytPc' = "faulted"
        /\ UNCHANGED twitch_chat
     \/ /\ twPc' = "listening"
        /\ twitch_chat' = <<[started |-> TRUE]>>
        /\ UNCHANGED ytPc
  /\ UNCHANGED <<videoId, store, youtube_chat_listener, pending, fanout,
                 exchange>>

\* twitch_listener up to its keep-alive loop. An exception before the
\* assignment of line 189 leaves twitch_chat None; one raised by
\* register_event or start() leaves it bound to a chat that was not started.
twitch_listener ==
  /\ twPc = "start"
  /\ \/ /\ twPc' = "faulted"
        /\ UNCHANGED twitch_chat
     \/ /\ twPc' = "faulted"
        /\ twitch_chat' = <<[started |-> FALSE]>>
     \/ /\ twPc' = "listening"
        /\ twitch_chat' = <<[started |-> TRUE]>>
  /\ UNCHANGED <<videoId, store, ytPc, youtube_chat_listener, pending, fanout,
                 exchange>>

\* on_twitch_message: the started chat delivers a message; the insert
\* succeeds, or raises inside the callback and nothing is stored.
on_twitch_message ==
  /\ twitch_chat # << >>
  /\ twitch_chat[1].started
  /\ \E msg \in TwMsgs :
       \/ /\ HasRoom(1)
          /\ store' = Insert(store, TwData(msg))
       \/ UNCHANGED store
  /\ UNCHANGED <<videoId, ytPc, youtube_chat_listener, twPc, twitch_chat,
                 pending, fanout, exchange>>

(* ------------------------------------------------------------ exchanges *)

\* One HTTP exchange: the request, what its handler got from the store read
\* and from the generative model ("none" when the call was not made), the
\* prompt it passed to the model, and the response.
Exchange(endpoint, req, read, prompt, gen, status, body) ==
  [endpoint |-> endpoint, req |-> req, read |-> read, prompt |-> prompt,
   gen |-> gen, status |-> status, body |-> body]

(* ------------------------------------------------------- GET /summarize *)

\* .order("created_at", desc=True): the rows, newest first.
RECURSIVE OrderDesc(_)
OrderDesc(s) ==
  IF s = {} THEN << >>
  ELSE LET r == CHOOSE x \in s : \A y \in s : y.created_at <= x.created_at
       IN  <<r>> \o OrderDesc(s \ {r})

\* .select("username, message_text")....limit(50).execute().data
Recent(s) ==
  LET rows == OrderDesc(s)
      k == IF Len(rows) < Limit THEN Len(rows) ELSE Limit
  IN  [i \in 1..k |->
         [username |-> rows[i].username, message_text |-> rows[i].message_text]]

\* Variant: the rows are left newest first.
ReversedNot(data) == data

\* reversed(data)
Reversed(data) == [i \in 1..Len(data) |-> data[Len(data) + 1 - i]]

\* f"{msg['username']}: {msg['message_text']}"
Line(msg) == msg.username \o ": " \o msg.message_text

\* "\n".join(lines)
RECURSIVE Join(_)
Join(lines) ==
  IF lines = << >> THEN ""
  ELSE IF Len(lines) = 1 THEN lines[1]
  ELSE lines[1] \o "\n" \o Join(Tail(lines))

\* chat_log of get_summary.
ChatLog(data) ==
  LET rev == Reversed(data) IN Join([i \in 1..Len(rev) |-> Line(rev[i])])

\* prompt of get_summary.
Prompt(data) == PromptHead \o ChatLog(data)

\* Variant: the error text alone is returned.
FrozenBare(e) == [summary |-> e]

\* The except branch of get_summary.
Frozen(e) == [summary |-> BrainFreeze \o e]

\* Variant: the empty result is not tested.
NotDataNever(data) == FALSE

\* if not data
NotData(data) == data = << >>

\* get_summary: the read raises; or the table is empty; or the model is
\* called with the prompt and answers or raises. The handler holds no await,
\* so it runs as one step.
get_summary ==
  /\ \/ \E e \in Errors :
          exchange' = <<Exchange("/summarize", << >>, "error", << >>, "none",
                                 200, Frozen(e))>>
     \/ LET data == Recent(store) IN
          IF NotData(data)
          THEN exchange' = <<Exchange("/summarize", << >>, "ok", << >>, "none",
                                      200, [summary |-> Quiet])>>
          ELSE \/ \E text \in Summaries :
                    exchange' = <<Exchange("/summarize", << >>, "ok",
                                           <<Prompt(data)>>, "ok", 200,
                                           [summary |-> text])>>
               \/ \E e \in Errors :
                    exchange' = <<Exchange("/summarize", << >>, "ok",
                                           <<Prompt(data)>>, "error", 200,
                                           Frozen(e))>>
  /\ UNCHANGED <<videoId, store, ytPc, youtube_chat_listener, twPc,
                 twitch_chat, pending, fanout>>

(* ---------------------------------------------------------- GET /health *)

\* The body health_check returns.
HealthBody(listener, chat) ==
  [youtube_listener |->
     IF listener # << >> THEN listener # << >> /\ listener[1].alive ELSE FALSE,
   twitch_listener |-> chat # << >>,
   supabase |-> "connected", gemini |-> "connected"]

health_check ==
  /\ exchange' = <<Exchange("/health", << >>, "none", << >>, "none", 200,
                            HealthBody(youtube_chat_listener, twitch_chat))>>
  /\ UNCHANGED <<videoId, store, ytPc, youtube_chat_listener, twPc,
                 twitch_chat, pending, fanout>>

(* ------------------------------------------------------ POST /broadcast *)

\* Variant: the row is tagged like the one on_twitch_message builds.
BroadcastDataAsTwitch(req) ==
  [username |-> req.username, message_text |-> req.message,
   platform |-> "twitch", is_subscriber |-> TRUE]

\* data of broadcast_message.
BroadcastData(req) ==
  [username |-> req.username, message_text |-> req.message,
   platform |-> "streamline", is_subscriber |-> TRUE]

\* Variant: the insert's exception is swallowed and the request acknowledged.
BroadcastReturnSwallowed(req, insertError) ==
  [req |-> req, status |-> 200,
   body |-> [status |-> "sent", message |-> req.message]]

\* What broadcast_message hands to the framework: the acknowledgment when
\* the insert returned (insertError is None), HTTPException(500) when it
\* raised.
BroadcastReturn(req, insertError) ==
  IF insertError = << >>
  THEN [req |-> req, status |-> 200,
        body |-> [status |-> "sent", message |-> req.message]]
  ELSE [req |-> req, status |-> 500, body |-> [detail |-> insertError[1]]]

\* A sender of the fan-out: not yet run, suspended in its await, or returned.
NotRun == [state |-> "pending", success |-> FALSE, detail |-> ""]

Awaiting == [state |-> "awaiting", success |-> FALSE, detail |-> ""]

Sent(platform) == [state |-> "done", success |-> TRUE, detail |-> platform]

Failed(error) == [state |-> "done", success |-> FALSE, detail |-> error]

\* Variant: the handler awaits broadcast_to_platforms(req.message) itself.
Awaited == FALSE

\* background_tasks.add_task(broadcast_to_platforms, req.message): the
\* fan-out is handed to the framework, which runs it once the response has
\* been sent; the handler does not await it.
Detached == TRUE

\* broadcast_message: schedule the fan-out, insert the row, return or raise.
\* The task scheduled by a handler that raises is dropped with its request.
\* Only the latest fan-out is tracked.
broadcast_message ==
  /\ pending = << >>
  /\ \E req \in Reqs :
       \/ /\ HasRoom(1)
          /\ store' = Insert(store, BroadcastData(req))
          /\ pending' = <<BroadcastReturn(req, << >>)>>
          /\ fanout' = <<[message |-> req.message,
                          twitch |-> NotRun, youtube |-> NotRun]>>
       \/ \E e \in Errors :
            /\ store' = store
            /\ pending' = <<BroadcastReturn(req, <<e>>)>>
            /\ UNCHANGED fanout
  /\ UNCHANGED <<videoId, ytPc, youtube_chat_listener, twPc, twitch_chat,
                 exchange>>

\* Whether the senders of the fan-out have returned.
Gathered(f) ==
  IF f = << >> THEN TRUE
  ELSE f[1].twitch.state = "done" /\ f[1].youtube.state = "done"

\* The framework sends the response of the returned handler.
respond ==
  /\ pending # << >>
  /\ IF Detached THEN TRUE ELSE Gathered(fanout)
  /\ exchange' = <<Exchange("/broadcast", <<pending[1].req>>, "none", << >>,
                            "none", pending[1].status, pending[1].body)>>
  /\ pending' = << >>
  /\ UNCHANGED <<videoId, store, ytPc, youtube_chat_listener, twPc,
                 twitch_chat, fanout>>

\* Whether the scheduled fan-out may run: a detached one, once no response
\* is outstanding.
Running ==
  IF fanout = << >> THEN FALSE
  ELSE IF Detached THEN pending = << >> ELSE TRUE

\* send_to_twitch up to its await: without a chat it returns the failure.
send_to_twitch ==
  /\ Running
  /\ fanout[1].twitch = NotRun
  /\ fanout' = <<[fanout[1] EXCEPT !.twitch =
                    IF twitch_chat = << >> THEN Failed(TwitchNotInitialized)
                    ELSE Awaiting]>>
  /\ UNCHANGED <<videoId, store, ytPc, youtube_chat_listener, twPc,
                 twitch_chat, pending, exchange>>

\* twitch_chat.send_message returns or raises.
send_to_twitch_done ==
  /\ Running
  /\ fanout[1].twitch = Awaiting
  /\ \/ fanout' = <<[fanout[1] EXCEPT !.twitch = Sent("twitch")]>>
     \/ \E e \in Errors :
          fanout' = <<[fanout[1] EXCEPT !.twitch = Failed(e)]>>
  /\ UNCHANGED <<videoId, store, ytPc, youtube_chat_listener, twPc,
                 twitch_chat, pending, exchange>>

\* send_to_youtube, which gather starts after send_to_twitch: the message is
\* sent, or no broadcast is active, or a call raises.
send_to_youtube ==
  /\ Running
  /\ fanout[1].twitch # NotRun
  /\ fanout[1].youtube = NotRun
  /\ \/ fanout' = <<[fanout[1] EXCEPT !.youtube = Sent("youtube")]>>
     \/ fanout' = <<[fanout[1] EXCEPT !.youtube = Failed(NoActiveStream)]>>
     \/ \E e \in Errors :
          fanout' = <<[fanout[1] EXCEPT !.youtube = Failed(e)]>>
  /\ UNCHANGED <<videoId, store, ytPc, youtube_chat_listener, twPc,
                 twitch_chat, pending, exchange>>

(* -------------------------------------------------------- specifications *)

\* After startup_event: both listener tasks created, nothing stored.
Init ==
  /\ videoId \in VideoIds
  /\ store = {}
  /\ ytPc = "start"
  /\ youtube_chat_listener = << >>
  /\ twPc = "start"
  /\ twitch_chat = << >>
  /\ pending = << >>
  /\ fanout = << >>
  /\ exchange = << >>

Next ==
  \/ youtube_listener_start
  \/ youtube_listener_create
  \/ youtube_listener_poll
  \/ chat_ends
  \/ twitch_listener
  \/ on_twitch_message
  \/ get_summary
  \/ health_check
  \/ broadcast_message
  \/ respond
  \/ send_to_twitch
  \/ send_to_twitch_done
  \/ send_to_youtube

Spec == Init /\ [][Next]_vars

\* The framework sends the response of a handler that has returned.
FairSpec == Spec /\ WF_vars(respond)

\* The n rows of a table, row i stamped 3 * i + p, their contents varied by p.
Stored(n, p) ==
  {[username |-> <<"a", "b", "c">>[(((i - 1) * p) % 3) + 1],
    message_text |-> <<"hi", "subbed!">>[(((i - 1) * p) % 2) + 1],
    platform |-> IF i % 3 = 0 THEN "streamline"
                 ELSE IF i % 3 = 1 THEN "twitch" ELSE "youtube",
    is_subscriber |-> (i % 3 = 0) \/ (i % 2 = 1),
    created_at |-> 3 * i + p] : i \in 1..n}

\* A table of any size up to MaxStored, no request answered yet.
InitSummarize ==
  /\ videoId = << >>
  /\ store \in {Stored(n, p) : n \in 0..MaxStored, p \in 1..NumPatterns}
  /\ ytPc = "start"
  /\ youtube_chat_listener = << >>
  /\ twPc = "start"
  /\ twitch_chat = << >>
  /\ pending = << >>
  /\ fanout = << >>
  /\ exchange = << >>

NextSummarize == get_summary \/ health_check

SummarizeSpec == InitSummarize /\ [][NextSummarize]_vars

(* ------------------------------------------------------------ properties *)

\* Whether the text holds the piece somewhere.
Contains(text, piece) ==
  \E i \in 1..(Len(text) - Len(piece) + 1) :
    SubSeq(text, i, i + Len(piece) - 1) = piece

\* Whether the exchange completed last is one of the endpoint.
Answered(endpoint) ==
  IF exchange = << >> THEN FALSE ELSE exchange[1].endpoint = endpoint

\* Whether the table holds the row of the broadcast request.
Persisted(req) ==
  \E r \in store :
    /\ r.username = req.username
    /\ r.message_text = req.message
    /\ r.platform = "streamline"
    /\ r.is_subscriber = TRUE

\* Whether the response is the acknowledgment of the request.
IsAck(status, body, req) ==
  status = 200 /\ body = [status |-> "sent", message |-> req.message]

\* C1: whenever the acknowledgment {status: "sent", message} of a /broadcast
\* request has been produced by the handler or sent to the caller, a row
\* with platform streamline, is_subscriber true and the request's username
\* and message is in the table.
C1_AckImpliesPersisted ==
  /\ (pending # << >>) =>
       (IsAck(pending[1].status, pending[1].body, pending[1].req)
          => Persisted(pending[1].req))
  /\ Answered("/broadcast") =>
       (IsAck(exchange[1].status, exchange[1].body, exchange[1].req[1])
          => Persisted(exchange[1].req[1]))

\* C1 witness: the acknowledgment has been sent and the row is stored.
C1_Witness ==
  /\ Answered("/broadcast")
  /\ IsAck(exchange[1].status, exchange[1].body, exchange[1].req[1])
  /\ Persisted(exchange[1].req[1])

\* C2: the handler's response is the acknowledgment exactly when its insert
\* added the row, and HTTP 500 exactly when the insert failed; the response
\* sent is the one the handler produced; and no step of a sender changes a
\* produced or sent response, whatever the senders' outcomes.
C2_ResponseFollowsInsert ==
  [][/\ (pending = << >> /\ pending' # << >>) =>
          \/ /\ store' # store
             /\ IsAck(pending'[1].status, pending'[1].body, pending'[1].req)
          \/ /\ store' = store
             /\ pending'[1].status = 500
     /\ (pending # << >> /\ pending' = << >>) =>
          /\ exchange'[1].endpoint = "/broadcast"
          /\ exchange'[1].status = pending[1].status
          /\ exchange'[1].body = pending[1].body
     /\ (fanout # << >> /\ fanout' # fanout /\ pending' = pending) =>
          UNCHANGED <<pending, exchange>>]_vars

\* C2 witness: the acknowledgment was sent, and then the Twitch sender found
\* no chat session and the YouTube sender no active broadcast.
C2_Witness ==
  /\ Answered("/broadcast")
  /\ IsAck(exchange[1].status, exchange[1].body, exchange[1].req[1])
  /\ fanout # << >>
  /\ fanout[1].twitch = Failed(TwitchNotInitialized)
  /\ fanout[1].youtube = Failed(NoActiveStream)

\* C3: every /summarize response is HTTP 200 with a summary; when the store
\* read or the model call failed, the summary is "AI Brain Freeze: " followed
\* by the error text.
C3_SummarizeNeverFails ==
  Answered("/summarize") =>
    /\ exchange[1].status = 200
    /\ (exchange[1].read = "error" \/ exchange[1].gen = "error") =>
         /\ Contains(exchange[1].body.summary, "AI Brain Freeze")
         /\ \E e \in Errors :
              exchange[1].body.summary = "AI Brain Freeze: " \o e

\* C3 witness: the model call failed and the caller got the placeholder.
C3_Witness ==
  /\ Answered("/summarize")
  /\ exchange[1].gen = "error"
  /\ exchange[1].status = 200
  /\ Contains(exchange[1].body.summary, "AI Brain Freeze")

\* Whether this step is a /summarize request answered.
SummarizeStep ==
  /\ exchange' # exchange
  /\ exchange'[1].endpoint = "/summarize"

\* C4: a /summarize request that runs on an empty table does not invoke the
\* model, and when its read succeeds the response is exactly the quiet-chat
\* message.
C4_QuietWhenEmpty ==
  [][(SummarizeStep /\ store = {}) =>
       /\ exchange'[1].prompt = << >>
       /\ exchange'[1].gen = "none"
       /\ exchange'[1].read = "ok" =>
            (exchange'[1].status = 200 /\
             exchange'[1].body =
               [summary |-> "Chat has been quiet. Nothing to report!"])]_vars

\* C4 witness: the quiet-chat message was returned while the table is empty.
C4_Witness ==
  /\ Answered("/summarize")
  /\ store = {}
  /\ exchange[1].read = "ok"
  /\ exchange[1].body = [summary |-> "Chat has been quiet. Nothing to report!"]
  /\ exchange[1].prompt = << >>

\* The rows of a table, oldest first.
RECURSIVE Ascending(_)
Ascending(s) ==
  IF s = {} THEN << >>
  ELSE LET r == CHOOSE x \in s : \A y \in s : x.created_at <= y.created_at
       IN  <<r>> \o Ascending(s \ {r})

\* The lines of rows i, i + 1, ..., one per row, each but the last followed
\* by a newline.
RECURSIVE LinesFrom(_, _)
LinesFrom(rows, i) ==
  IF i > Len(rows) THEN ""
  ELSE rows[i].username \o ": " \o rows[i].message_text
       \o (IF i < Len(rows) THEN "\n" ELSE "") \o LinesFrom(rows, i + 1)

\* The chat log the claim describes: the min(50, n) newest rows, oldest first.
ExpectedLog(s) ==
  LET n == Cardinality(s)
      k == IF n < 50 THEN n ELSE 50
  IN  LinesFrom(Ascending(s), n - k + 1)

\* The table of the example: (a, hi, t1) and (b, subbed!, t2), t2 > t1.
ExampleStore == Stored(2, 1)

\* C5: for a non-empty table, the prompt passed to the model ends with the
\* chat log of the min(50, n) rows of greatest created_at, one
\* "username: message_text" line per row, oldest of them first; the example
\* table renders as "a: hi\nb: subbed!".
C5_ChatLogChronological ==
  (Answered("/summarize") /\ exchange[1].read = "ok" /\ store # {}) =>
    /\ exchange[1].prompt = <<PromptHead \o ExpectedLog(store)>>
    /\ store = ExampleStore =>
         exchange[1].prompt = <<PromptHead \o "a: hi\nb: subbed!">>

\* C5 witness: a table of more than 50 rows was summarized, so the oldest
\* rows were left out of the log.
C5_Witness ==
  /\ Answered("/summarize")
  /\ exchange[1].read = "ok"
  /\ Cardinality(store) > 50
  /\ exchange[1].prompt # << >>

\* The rows of a platform in a table.
RowsOf(s, platform) == {r \in s : r.platform = platform}

\* C6: every step leaves the rows of the table as they are and at most adds
\* rows stamped later than all of them; a step that answers /summarize or
\* /health, or sends a response, adds none.
C6_AppendOnly ==
  [][/\ store \subseteq store'
     /\ \A r \in store' \ store : \A q \in store : q.created_at < r.created_at
     /\ exchange' # exchange => store' = store]_vars

\* C6 witness: rows of two sources are stored and a /summarize was answered
\* after them.
C6_Witness ==
  /\ RowsOf(store, "streamline") # {}
  /\ RowsOf(store, "twitch") # {}
  /\ Answered("/summarize")
  /\ exchange[1].prompt # << >>

\* C7: a response the handler has produced is always sent, whether or not
\* the senders ever return; no sender runs while a response is outstanding
\* (the fan-out starts after the response); and a step of a sender changes
\* nothing the caller has received.
C7_ResponseNotBlocked ==
  /\ (pending # << >>) ~> (pending = << >>)
  /\ [][(fanout # << >> /\ fanout' # fanout /\ pending' = pending)
          => (pending = << >> /\ exchange' = exchange)]_vars

\* C7 witness: the acknowledgment was sent while the Twitch sender is still
\* suspended in its send and the YouTube sender has not run.
C7_Witness ==
  /\ Answered("/broadcast")
  /\ exchange[1].status = 200
  /\ pending = << >>
  /\ fanout # << >>
  /\ fanout[1].twitch = Awaiting
  /\ fanout[1].youtube = NotRun

\* The state of the YouTube listener: Idle until it enters its try block,
\* Polling inside it, Stopped once the loop has ended, Faulted once an
\* exception has been caught.
YtState(pc) ==
  CASE pc \in {"start", "skipped"} -> "Idle"
    [] pc \in {"create", "polling"} -> "Polling"
    [] pc = "stopped" -> "Stopped"
    [] pc = "faulted" -> "Faulted"

\* C8: the listener moves only Idle -> Polling -> (Stopped | Faulted); with
\* no video identifier it stays Idle and no youtube row is ever stored; and
\* youtube rows are stored only by a step of a listener that is Polling,
\* which leaves it Polling or, when an insert raised, Faulted.
C8_ListenerStateMachine ==
  [][/\ \/ YtState(ytPc') = YtState(ytPc)
        \/ YtState(ytPc) = "Idle" /\ YtState(ytPc') = "Polling"
        \/ YtState(ytPc) = "Polling" /\ YtState(ytPc') \in {"Stopped", "Faulted"}
     /\ videoId = << >> =>
          (YtState(ytPc') = "Idle" /\ RowsOf(store', "youtube") = {})
     /\ RowsOf(store', "youtube") # RowsOf(store, "youtube") =>
          (YtState(ytPc) = "Polling" /\ YtState(ytPc') \in {"Polling", "Faulted"})]_vars

\* C8 witness: the listener persisted an event and then faulted.
C8_Witness ==
  /\ ytPc = "faulted"
  /\ RowsOf(store, "youtube") # {}

\* Whether the started Twitch chat can deliver messages.
TwitchDelivering ==
  IF twitch_chat = << >> THEN FALSE ELSE twitch_chat[1].started

\* Whether the YouTube listener is in its loop over a live chat.
YoutubePolling ==
  IF youtube_chat_listener = << >> THEN FALSE
  ELSE ytPc = "polling" /\ youtube_chat_listener[1].alive

\* What still works once a listener has faulted: after a YouTube fault the
\* Twitch callback still persists and the handlers still answer; after a
\* Twitch setup failure the YouTube listener still polls and persists.
Survives ==
  /\ ytPc = "faulted" =>
       /\ (TwitchDelivering /\ HasRoom(1)) =>
            ENABLED (on_twitch_message /\ store' # store)
       /\ ENABLED get_summary
       /\ (pending = << >>) => ENABLED broadcast_message
       /\ (pending # << >>) => ENABLED respond
  /\ twPc = "faulted" =>
       /\ (YoutubePolling /\ HasRoom(1)) =>
            ENABLED (youtube_listener_poll /\ store' # store)
       /\ ENABLED get_summary
       /\ (pending = << >>) => ENABLED broadcast_message
       /\ (pending # << >>) => ENABLED respond

\* C9: the step in which one listener faults changes nothing of the other
\* listener, and in every state where a listener has faulted the other
\* listener's persisting step and the handlers remain possible.
C9_FailureIsolated ==
  /\ []Survives
  /\ [][/\ (ytPc' = "faulted" /\ ytPc # "faulted") =>
             UNCHANGED <<twPc, twitch_chat>>
        /\ (twPc' = "faulted" /\ twPc # "faulted") =>
             UNCHANGED <<ytPc, youtube_chat_listener>>]_vars

\* C9 witness: the YouTube listener has faulted, the Twitch listener is
\* listening, and a Twitch message stamped after every YouTube event is in
\* the table.
C9_Witness ==
  /\ ytPc = "faulted"
  /\ twPc = "listening"
  /\ RowsOf(store, "youtube") # {}
  /\ \E t \in RowsOf(store, "twitch") :
       \A y \in RowsOf(store, "youtube") : y.created_at < t.created_at

\* C10: the youtube_listener field of /health is true only if the polling
\* loop is running, and the twitch_listener field only if the Twitch
\* listener has completed its setup and not ended with an error.
C10_HealthReflectsListeners ==
  /\ HealthBody(youtube_chat_listener, twitch_chat).youtube_listener
       => ytPc = "polling"
  /\ HealthBody(youtube_chat_listener, twitch_chat).twitch_listener
       => twPc = "listening"

====
